---- MODULE Spec2Model ----
(***************************************************************************)
(* The OZZY voice front end: the call-session state machine of the three   *)
(* App components (minimal, enum-status and boolean-flag variants), the     *)
(* asynchronous start sequence of each, and the external call client as    *)
(* the environment that delivers lifecycle events.                         *)
(***************************************************************************)
EXTENDS Integers, FiniteSets, Sequences, TLC

\* ------------------------------------------------------------------ bounds
\* Largest number of start attempts (async startCall / toggleConversation
\* flows) that may be suspended at an await at the same time.
MaxPending == 2
\* Longest sample buffer an audio event carries.
MaxSamples == 2

\* ------------------------------------------------------------- vocabulary
NULL == "null"
ConnectionError == "Connection error. Please try again."
MicDenied == "Microphone access denied."
FailedToConnect == "Failed to connect."
MediaDevicesUnsupported == "mediaDevices not supported"
MicErrorMsg == "name: message"

Variants == {"minimal", "enum", "boolean"}
CallStatus == {"idle", "connecting", "connected", "error"}
TalkMode == {"continuous", "push-to-talk"}
Slots == 1..MaxPending

\* Numbers are fractions num/den with den >= 0: 0/0 is NaN, n/0 with n > 0 is
\* Infinity.  Sample amplitudes are given in hundredths.
Amplitudes == {-100, -4, 0, 4, 100}
Zero == [num |-> 0, den |-> 1]
One == [num |-> 1, den |-> 1]

VARIABLES
    variant,          \* which App component is mounted
    \* useState cells (a cell a variant does not declare keeps its initial value)
    status, talkMode, isMuted, isAgentSpeaking, isUserSpeaking, isPTTActive,
    error, audioLevel,
    isCalling, hasError, isTransitioning, isCheckingMic, errorDetail,
    \* suspended start attempts: where each async flow is waiting
    pc,
    \* the external call client (RetellWebClient instance)
    client,
    \* history: the handler that ran last, the external operations it invoked
    last,
    \* history: the user pressed stop while a start was in flight and has not
    \* requested a start since
    stopWhileConnecting,
    \* input devices the user is holding down: "pointer" (mouse button or finger
    \* on the main button), "space" (the Space key)
    held,
    \* live tracks of microphone streams opened by getUserMedia
    liveTracks

enumOnly == <<status, talkMode, isAgentSpeaking, isUserSpeaking, isPTTActive, error, audioLevel>>
boolOnly == <<hasError, isTransitioning, isCheckingMic, errorDetail>>
vars == <<variant, status, talkMode, isMuted, isAgentSpeaking, isUserSpeaking,
          isPTTActive, error, audioLevel, isCalling, hasError, isTransitioning,
          isCheckingMic, errorDetail, pc, client, last, stopWhileConnecting,
          held, liveTracks>>

\* ------------------------------------------------------------ derivations
\* The session is in the connected status.
Connected == IF variant = "enum" THEN status = "connected" ELSE isCalling

Outstanding == {a \in Slots : pc[a] # "free"}
FreeSlot == CHOOSE a \in Slots : pc[a] = "free" /\ \A b \in Slots : pc[b] = "free" => a <= b

Last(h, cs, a) == [handler |-> h, calls |-> cs, attempt |-> a, wasConnected |-> Connected]

\* ------------------------------------------------- external call client
\* state: no call / connecting the call / call open; ended: a call_ended
\* event is due for delivery; muted: the microphone track is muted.
ClientInit == [state |-> "none", ended |-> FALSE, muted |-> FALSE]

ClientStartCall(c) == [c EXCEPT !.state = "starting", !.muted = FALSE]

ClientStopCall(c) ==
    IF c.state = "none" THEN c
    ELSE [c EXCEPT !.state = "none", !.ended = TRUE]

ClientMute(c) == [c EXCEPT !.muted = TRUE]
ClientUnmute(c) == [c EXCEPT !.muted = FALSE]

\* ------------------------------------------------------------------- Init
Init ==
    /\ variant \in Variants
    /\ status = "idle"
    /\ talkMode = "continuous"
    /\ isMuted = FALSE
    /\ isAgentSpeaking = FALSE
    /\ isUserSpeaking = FALSE
    /\ isPTTActive = FALSE
    /\ error = NULL
    /\ audioLevel = Zero
    /\ isCalling = FALSE
    /\ hasError = FALSE
    /\ isTransitioning = FALSE
    /\ isCheckingMic = FALSE
    /\ errorDetail = ""
    /\ pc = [a \in Slots |-> "free"]
    /\ client = ClientInit
    /\ last = [handler |-> "mount", calls |-> {}, attempt |-> 0, wasConnected |-> FALSE]
    /\ stopWhileConnecting = FALSE
    /\ held = {}
    /\ liveTracks = {}

\* ------------------------------------------------ microphone permission
\* The tracks of the stream getUserMedia({audio: true}) resolves with, for
\* the probe of start attempt a.
GetUserMedia(a) == {<<a, "audio">>}

\* requestMicPermission without the forEach(track.stop()).
requestMicPermission_noStop(a, resolved) ==
    IF resolved
    THEN [result |-> TRUE, live |-> GetUserMedia(a)]
    ELSE [result |-> FALSE, live |-> {}]

\* requestMicPermission (enum variant): result is the boolean it returns,
\* live the tracks of its stream that are still live when it returns.
requestMicPermission(a, resolved) ==
    IF resolved
    THEN LET stream == GetUserMedia(a)
             stopped == {track \in stream : TRUE}
         IN  [result |-> TRUE, live |-> stream \ stopped]
    ELSE [result |-> FALSE, live |-> {}]

\* checkMicrophonePermission (boolean variant); outcome is "unsupported"
\* (no navigator.mediaDevices), "resolved" or "rejected" (getUserMedia).
checkMicrophonePermission(a, outcome) ==
    CASE outcome = "unsupported" ->
            [result |-> FALSE, detail |-> MediaDevicesUnsupported, live |-> {}]
      [] outcome = "resolved" ->
            LET stream == GetUserMedia(a)
                stopped == {track \in stream : TRUE}
            IN  [result |-> TRUE, detail |-> "", live |-> stream \ stopped]
      [] OTHER ->
            [result |-> FALSE, detail |-> MicErrorMsg, live |-> {}]

\* =================================================== enum-status variant
\* startCall up to its first await (the getUserMedia probe).
startCall ==
    /\ variant = "enum"
    /\ status \in {"idle", "error"}
    /\ Outstanding # Slots
    /\ status' = "connecting"
    /\ error' = NULL
    /\ pc' = [pc EXCEPT ![FreeSlot] = "mic"]
    /\ last' = Last("startCall", {"getUserMedia"}, FreeSlot)
    /\ stopWhileConnecting' = FALSE
    /\ UNCHANGED <<variant, talkMode, isMuted, isAgentSpeaking, isUserSpeaking,
                   isPTTActive, audioLevel, isCalling, client>>
    /\ UNCHANGED boolOnly
    /\ UNCHANGED <<held, liveTracks>>

\* requestMicPermission resolved true: startCall goes on to registerCall.
startCall_micGranted(a) ==
    /\ variant = "enum"
    /\ pc[a] = "mic"
    /\ pc' = [pc EXCEPT ![a] = "register"]
    /\ requestMicPermission(a, TRUE).result
    /\ liveTracks' = liveTracks \cup requestMicPermission(a, TRUE).live
    /\ last' = Last("startCall_micGranted", {"fetch"}, a)
    /\ UNCHANGED <<variant, isMuted, isCalling, client, stopWhileConnecting>>
    /\ UNCHANGED enumOnly
    /\ UNCHANGED boolOnly
    /\ UNCHANGED held

\* startCall without the return after a denied probe: it records the error
\* and carries on to registerCall.
startCall_micDenied_noReturn(a) ==
    /\ variant = "enum"
    /\ pc[a] = "mic"
    /\ error' = MicDenied
    /\ status' = "error"
    /\ pc' = [pc EXCEPT ![a] = "register"]
    /\ last' = Last("startCall_micDenied", {"fetch"}, a)
    /\ UNCHANGED <<variant, talkMode, isMuted, isAgentSpeaking, isUserSpeaking,
                   isPTTActive, audioLevel, isCalling, client, stopWhileConnecting>>
    /\ UNCHANGED boolOnly
    /\ UNCHANGED <<held, liveTracks>>

\* requestMicPermission resolved false: error, return.
startCall_micDenied(a) ==
    /\ variant = "enum"
    /\ pc[a] = "mic"
    /\ error' = MicDenied
    /\ status' = "error"
    /\ pc' = [pc EXCEPT ![a] = "free"]
    /\ ~requestMicPermission(a, FALSE).result
    /\ liveTracks' = liveTracks \cup requestMicPermission(a, FALSE).live
    /\ last' = Last("startCall_micDenied", {}, a)
    /\ UNCHANGED <<variant, talkMode, isMuted, isAgentSpeaking, isUserSpeaking,
                   isPTTActive, audioLevel, isCalling, client, stopWhileConnecting>>
    /\ UNCHANGED boolOnly
    /\ UNCHANGED held

\* registerCall resolved with a 2xx body (with or without access_token):
\* retellClient.startCall is invoked with whatever access_token is.
startCall_registered(a) ==
    /\ variant = "enum"
    /\ pc[a] = "register"
    /\ pc' = [pc EXCEPT ![a] = "startCall"]
    /\ client' = ClientStartCall(client)
    /\ last' = Last("startCall_registered", {"startCall"}, a)
    /\ UNCHANGED <<variant, isMuted, isCalling, stopWhileConnecting>>
    /\ UNCHANGED enumOnly
    /\ UNCHANGED boolOnly
    /\ UNCHANGED <<held, liveTracks>>

\* the catch block of startCall
startCall_catch(a, h) ==
    /\ error' = FailedToConnect
    /\ status' = "error"
    /\ pc' = [pc EXCEPT ![a] = "free"]
    /\ last' = Last(h, {}, a)
    /\ UNCHANGED <<variant, talkMode, isMuted, isAgentSpeaking, isUserSpeaking,
                   isPTTActive, audioLevel, isCalling, client, stopWhileConnecting>>
    /\ UNCHANGED boolOnly
    /\ UNCHANGED <<held, liveTracks>>

\* registerCall without the response.ok check: a failed response is parsed
\* like a good one and startCall is invoked.
startCall_registerFailed_noThrow(a) ==
    /\ variant = "enum"
    /\ pc[a] = "register"
    /\ pc' = [pc EXCEPT ![a] = "startCall"]
    /\ client' = ClientStartCall(client)
    /\ last' = Last("startCall_registerFailed", {"startCall"}, a)
    /\ UNCHANGED <<variant, isMuted, isCalling, stopWhileConnecting>>
    /\ UNCHANGED enumOnly
    /\ UNCHANGED boolOnly
    /\ UNCHANGED <<held, liveTracks>>

\* registerCall threw (non-2xx response, or fetch rejected).
startCall_registerFailed(a) ==
    /\ variant = "enum"
    /\ pc[a] = "register"
    /\ startCall_catch(a, "startCall_registerFailed")

\* retellClient.startCall resolved: startCall returns, nothing is set.
startCall_resolved(a) ==
    /\ variant = "enum"
    /\ pc[a] = "startCall"
    /\ pc' = [pc EXCEPT ![a] = "free"]
    /\ last' = Last("startCall_resolved", {}, a)
    /\ UNCHANGED <<variant, isMuted, isCalling, client, stopWhileConnecting>>
    /\ UNCHANGED enumOnly
    /\ UNCHANGED boolOnly
    /\ UNCHANGED <<held, liveTracks>>

\* retellClient.startCall rejected.
startCall_rejected(a) ==
    /\ variant = "enum"
    /\ pc[a] = "startCall"
    /\ startCall_catch(a, "startCall_rejected")

stopCall ==
    /\ variant = "enum"
    /\ status \in {"connecting", "connected"}
    /\ client' = ClientStopCall(client)
    /\ status' = "idle"
    /\ last' = Last("stopCall", {"stopCall"}, 0)
    /\ stopWhileConnecting' = (stopWhileConnecting \/ status = "connecting")
    /\ UNCHANGED <<variant, talkMode, isMuted, isAgentSpeaking, isUserSpeaking,
                   isPTTActive, error, audioLevel, isCalling, pc>>
    /\ UNCHANGED boolOnly
    /\ UNCHANGED <<held, liveTracks>>

\* toggleMute, from the Mute button (shown while connected in continuous
\* mode) or the M key (while connected).
toggleMute ==
    /\ variant = "enum"
    /\ status = "connected"
    /\ IF isMuted
       THEN /\ client' = ClientUnmute(client)
            /\ isMuted' = FALSE
            /\ last' = Last("toggleMute", {"unmute"}, 0)
       ELSE /\ client' = ClientMute(client)
            /\ isMuted' = TRUE
            /\ last' = Last("toggleMute", {"mute"}, 0)
    /\ UNCHANGED <<variant, isCalling, pc, stopWhileConnecting>>
    /\ UNCHANGED enumOnly
    /\ UNCHANGED boolOnly
    /\ UNCHANGED <<held, liveTracks>>

\* handlePTTStart, called by the handler named h.
handlePTTStart(h) ==
    /\ IF status # "connected" \/ talkMode # "push-to-talk"
       THEN /\ last' = Last(h, {}, 0)
            /\ UNCHANGED <<isPTTActive, client>>
       ELSE /\ isPTTActive' = TRUE
            /\ client' = ClientUnmute(client)
            /\ last' = Last(h, {"unmute"}, 0)
    /\ UNCHANGED <<variant, status, talkMode, isMuted, isAgentSpeaking, isUserSpeaking,
                   error, audioLevel, isCalling, pc, stopWhileConnecting>>
    /\ UNCHANGED boolOnly
    /\ UNCHANGED liveTracks

\* handlePTTEnd, called by the handler named h.
handlePTTEnd(h) ==
    /\ IF talkMode # "push-to-talk"
       THEN /\ last' = Last(h, {}, 0)
            /\ UNCHANGED <<isPTTActive, client>>
       ELSE /\ isPTTActive' = FALSE
            /\ client' = ClientMute(client)
            /\ last' = Last(h, {"mute"}, 0)
    /\ UNCHANGED <<variant, status, talkMode, isMuted, isAgentSpeaking, isUserSpeaking,
                   error, audioLevel, isCalling, pc, stopWhileConnecting>>
    /\ UNCHANGED boolOnly
    /\ UNCHANGED liveTracks

\* An input event for which the element has no handler (the prop is
\* undefined), or whose handler does nothing.
NoHandler(h) ==
    /\ last' = Last(h, {}, 0)
    /\ UNCHANGED <<variant, isMuted, isCalling, pc, client, stopWhileConnecting>>
    /\ UNCHANGED enumOnly
    /\ UNCHANGED boolOnly
    /\ UNCHANGED liveTracks

PressEvents == {"onMouseDown", "onTouchStart"}
ReleaseEvents == {"onMouseUp", "onTouchEnd"}

\* onMouseDown / onTouchStart wired in every mode to a press handler that
\* checks the status only.
onPress_noModeCheck(h) ==
    /\ variant = "enum"
    /\ "pointer" \notin held
    /\ held' = held \cup {"pointer"}
    /\ IF status # "connected"
       THEN /\ last' = Last(h, {}, 0)
            /\ UNCHANGED <<isPTTActive, client>>
       ELSE /\ isPTTActive' = TRUE
            /\ client' = ClientUnmute(client)
            /\ last' = Last(h, {"unmute"}, 0)
    /\ UNCHANGED <<variant, status, talkMode, isMuted, isAgentSpeaking, isUserSpeaking,
                   error, audioLevel, isCalling, pc, stopWhileConnecting>>
    /\ UNCHANGED boolOnly
    /\ UNCHANGED liveTracks

\* onMouseDown / onTouchStart of the main button.
onPress(h) ==
    /\ variant = "enum"
    /\ "pointer" \notin held
    /\ held' = held \cup {"pointer"}
    /\ IF talkMode = "push-to-talk" THEN handlePTTStart(h) ELSE NoHandler(h)

\* onMouseUp / onTouchEnd of the main button.
onRelease(h) ==
    /\ variant = "enum"
    /\ "pointer" \in held
    /\ held' = held \ {"pointer"}
    /\ IF talkMode = "push-to-talk" THEN handlePTTEnd(h) ELSE NoHandler(h)

\* onMouseLeave of the main button: the pointer leaves it, pressed or not.
onMouseLeave ==
    /\ variant = "enum"
    /\ held' = held \ {"pointer"}
    /\ IF talkMode = "push-to-talk" THEN handlePTTEnd("onMouseLeave")
                                    ELSE NoHandler("onMouseLeave")

\* handleKeyDown for Space: the first keydown, or a key-repeat keydown while
\* the key is held.  (The KeyM branch is toggleMute.)
handleKeyDown ==
    /\ variant = "enum"
    /\ held' = held \cup {"space"}
    /\ LET h == IF "space" \in held THEN "handleKeyDown_repeat" ELSE "handleKeyDown"
       IN  IF talkMode = "push-to-talk" /\ status = "connected"
           THEN handlePTTStart(h)
           ELSE NoHandler(h)

\* handleKeyUp for Space.
handleKeyUp ==
    /\ variant = "enum"
    /\ "space" \in held
    /\ held' = held \ {"space"}
    /\ IF talkMode = "push-to-talk" THEN handlePTTEnd("handleKeyUp")
                                    ELSE NoHandler("handleKeyUp")

\* switchMode without the else branch: switching back to continuous leaves
\* the mute state as it was.
switchMode_noUnmute(mode) ==
    /\ variant = "enum"
    /\ talkMode' = mode
    /\ IF status = "connected" /\ mode = "push-to-talk"
       THEN /\ client' = ClientMute(client)
            /\ isMuted' = TRUE
            /\ last' = Last("switchMode", {"mute"}, 0)
       ELSE /\ last' = Last("switchMode", {}, 0)
            /\ UNCHANGED <<client, isMuted>>
    /\ UNCHANGED <<variant, status, isAgentSpeaking, isUserSpeaking, isPTTActive,
                   error, audioLevel, isCalling, pc, stopWhileConnecting>>
    /\ UNCHANGED boolOnly
    /\ UNCHANGED <<held, liveTracks>>

switchMode(mode) ==
    /\ variant = "enum"
    /\ talkMode' = mode
    /\ IF status = "connected"
       THEN IF mode = "push-to-talk"
            THEN /\ client' = ClientMute(client)
                 /\ isMuted' = TRUE
                 /\ last' = Last("switchMode", {"mute"}, 0)
            ELSE /\ client' = ClientUnmute(client)
                 /\ isMuted' = FALSE
                 /\ last' = Last("switchMode", {"unmute"}, 0)
       ELSE /\ last' = Last("switchMode", {}, 0)
            /\ UNCHANGED <<client, isMuted>>
    /\ UNCHANGED <<variant, status, isAgentSpeaking, isUserSpeaking, isPTTActive,
                   error, audioLevel, isCalling, pc, stopWhileConnecting>>
    /\ UNCHANGED boolOnly
    /\ UNCHANGED <<held, liveTracks>>

\* ---- SDK event handlers (enum)
on_call_started ==
    /\ variant = "enum"
    /\ client.state = "starting"
    /\ client' = [client EXCEPT !.state = "open"]
    /\ status' = "connected"
    /\ error' = NULL
    /\ last' = Last("call_started", {}, 0)
    /\ UNCHANGED <<variant, talkMode, isMuted, isAgentSpeaking, isUserSpeaking,
                   isPTTActive, audioLevel, isCalling, pc, stopWhileConnecting>>
    /\ UNCHANGED boolOnly
    /\ UNCHANGED <<held, liveTracks>>

\* call_ended is delivered after a stopCall that closed a call, or when the
\* call ends on the remote side.
ClientEmitsCallEnded == client.ended \/ client.state # "none"
ClientAfterCallEnded == [client EXCEPT !.state = "none", !.ended = FALSE]

on_call_ended ==
    /\ variant = "enum"
    /\ ClientEmitsCallEnded
    /\ client' = ClientAfterCallEnded
    /\ status' = "idle"
    /\ isAgentSpeaking' = FALSE
    /\ isUserSpeaking' = FALSE
    /\ isMuted' = FALSE
    /\ last' = Last("call_ended", {}, 0)
    /\ UNCHANGED <<variant, talkMode, isPTTActive, error, audioLevel, isCalling,
                   pc, stopWhileConnecting>>
    /\ UNCHANGED boolOnly
    /\ UNCHANGED <<held, liveTracks>>

on_agent_start_talking ==
    /\ variant = "enum"
    /\ client.state = "open"
    /\ isAgentSpeaking' = TRUE
    /\ last' = Last("agent_start_talking", {}, 0)
    /\ UNCHANGED <<variant, status, talkMode, isMuted, isUserSpeaking, isPTTActive,
                   error, audioLevel, isCalling, pc, client, stopWhileConnecting>>
    /\ UNCHANGED boolOnly
    /\ UNCHANGED <<held, liveTracks>>

\* agent_stop_talking that also clears the mute flag, as call_ended does.
on_agent_stop_talking_resetsMute ==
    /\ variant = "enum"
    /\ client.state = "open"
    /\ isAgentSpeaking' = FALSE
    /\ isMuted' = FALSE
    /\ last' = Last("agent_stop_talking", {}, 0)
    /\ UNCHANGED <<variant, status, talkMode, isUserSpeaking, isPTTActive,
                   error, audioLevel, isCalling, pc, client, stopWhileConnecting>>
    /\ UNCHANGED boolOnly
    /\ UNCHANGED <<held, liveTracks>>

on_agent_stop_talking ==
    /\ variant = "enum"
    /\ client.state = "open"
    /\ isAgentSpeaking' = FALSE
    /\ last' = Last("agent_stop_talking", {}, 0)
    /\ UNCHANGED <<variant, status, talkMode, isMuted, isUserSpeaking, isPTTActive,
                   error, audioLevel, isCalling, pc, client, stopWhileConnecting>>
    /\ UNCHANGED boolOnly
    /\ UNCHANGED <<held, liveTracks>>

on_error ==
    /\ variant = "enum"
    /\ client.state # "none"
    /\ error' = ConnectionError
    /\ status' = "error"
    /\ last' = Last("error", {}, 0)
    /\ UNCHANGED <<variant, talkMode, isMuted, isAgentSpeaking, isUserSpeaking,
                   isPTTActive, audioLevel, isCalling, pc, client, stopWhileConnecting>>
    /\ UNCHANGED boolOnly
    /\ UNCHANGED <<held, liveTracks>>

\* ---- the audio handler
RECURSIVE Reduce(_)
\* audio.reduce((acc, val) => acc + Math.abs(val), 0), in hundredths
Reduce(audio) ==
    IF audio = <<>> THEN 0
    ELSE LET val == audio[Len(audio)]
             acc == Reduce(SubSeq(audio, 1, Len(audio) - 1))
         IN  acc + (IF val < 0 THEN -val ELSE val)

\* Math.min(x, 1): NaN if x is NaN, 1 if x exceeds 1, else x
MathMin1(x) ==
    IF x.num = 0 /\ x.den = 0 THEN x
    ELSE IF x.num > x.den THEN One
    ELSE x

\* The level the handler stores: Math.min(sum / audio.length * 10, 1).
AudioLevelOf(audio) ==
    LET sum == [num |-> Reduce(audio), den |-> 100]
        avg == [num |-> sum.num, den |-> sum.den * Len(audio)]
    IN  MathMin1([num |-> avg.num * 10, den |-> avg.den])

SampleBuffers == UNION {[1..n -> Amplitudes] : n \in 0..MaxSamples}

on_audio(audio) ==
    /\ variant = "enum"
    /\ client.state = "open"
    /\ audioLevel' = AudioLevelOf(audio)
    /\ last' = Last(IF audio = <<>> THEN "audio_empty" ELSE "audio", {}, 0)
    /\ UNCHANGED <<variant, status, talkMode, isMuted, isAgentSpeaking, isUserSpeaking,
                   isPTTActive, error, isCalling, pc, client, stopWhileConnecting>>
    /\ UNCHANGED boolOnly
    /\ UNCHANGED <<held, liveTracks>>

\* ---- presentation of the main button (enum)
\* the ring classes of the main button's className
RingClasses ==
    (IF status = "connected" /\ isAgentSpeaking THEN {"ring-purple-600/50"} ELSE {})
    \cup (IF status = "connected"
             /\ (isPTTActive \/ (~isMuted /\ talkMode = "continuous" /\ ~isAgentSpeaking))
          THEN {"ring-green-500/50"} ELSE {})
    \cup (IF status = "error" THEN {"ring-red-600/50"} ELSE {})

\* the class of the outer glow behind the button
OuterGlow ==
    IF status # "connected" THEN "none"
    ELSE IF isAgentSpeaking THEN "bg-purple-600/20"
    ELSE IF isPTTActive \/ (~isMuted /\ talkMode = "continuous") THEN "bg-green-500/20"
    ELSE "bg-neutral-800/20"

EnumNext ==
    \/ startCall
    \/ \E a \in Slots : startCall_micGranted(a)
    \/ \E a \in Slots : startCall_micDenied(a)
    \/ \E a \in Slots : startCall_registered(a)
    \/ \E a \in Slots : startCall_registerFailed(a)
    \/ \E a \in Slots : startCall_resolved(a)
    \/ \E a \in Slots : startCall_rejected(a)
    \/ stopCall
    \/ toggleMute
    \/ \E h \in PressEvents : onPress(h)
    \/ \E h \in ReleaseEvents : onRelease(h)
    \/ onMouseLeave
    \/ handleKeyDown
    \/ handleKeyUp
    \/ \E mode \in TalkMode : switchMode(mode)
    \/ on_call_started
    \/ on_call_ended
    \/ on_agent_start_talking
    \/ on_agent_stop_talking
    \/ on_error

\* ======================================================= minimal variant
minOnly == <<isAgentSpeaking, error>>
notMinimal == <<status, talkMode, isMuted, isUserSpeaking, isPTTActive, audioLevel,
                hasError, isTransitioning, isCheckingMic, errorDetail, held, liveTracks>>

\* toggleConversation while isCalling: stopCall on the client, nothing else.
toggleConversation_min_stop ==
    /\ variant = "minimal"
    /\ isCalling
    /\ client' = ClientStopCall(client)
    /\ last' = Last("toggleConversation_stop", {"stopCall"}, 0)
    /\ stopWhileConnecting' = stopWhileConnecting
    /\ UNCHANGED <<variant, isCalling, pc>>
    /\ UNCHANGED minOnly
    /\ UNCHANGED notMinimal

\* toggleConversation while not isCalling, up to the await of registerCall.
toggleConversation_min_start ==
    /\ variant = "minimal"
    /\ ~isCalling
    /\ Outstanding # Slots
    /\ error' = NULL
    /\ pc' = [pc EXCEPT ![FreeSlot] = "register"]
    /\ last' = Last("toggleConversation_start", {"fetch"}, FreeSlot)
    /\ stopWhileConnecting' = FALSE
    /\ UNCHANGED <<variant, isCalling, isAgentSpeaking, client>>
    /\ UNCHANGED notMinimal

\* registerCall resolved with an access_token: await retellWebClient.startCall.
toggleConversation_min_registered(a) ==
    /\ variant = "minimal"
    /\ pc[a] = "register"
    /\ pc' = [pc EXCEPT ![a] = "startCall"]
    /\ client' = ClientStartCall(client)
    /\ last' = Last("toggleConversation_registered", {"startCall"}, a)
    /\ UNCHANGED <<variant, isCalling, stopWhileConnecting>>
    /\ UNCHANGED minOnly
    /\ UNCHANGED notMinimal

\* registerCall resolved with a body that has no access_token: nothing happens.
toggleConversation_min_noToken(a) ==
    /\ variant = "minimal"
    /\ pc[a] = "register"
    /\ pc' = [pc EXCEPT ![a] = "free"]
    /\ last' = Last("toggleConversation_noToken", {}, a)
    /\ UNCHANGED <<variant, isCalling, client, stopWhileConnecting>>
    /\ UNCHANGED minOnly
    /\ UNCHANGED notMinimal

\* the catch block of toggleConversation
toggleConversation_min_catch(a, h) ==
    /\ error' = FailedToConnect
    /\ pc' = [pc EXCEPT ![a] = "free"]
    /\ last' = Last(h, {}, a)
    /\ UNCHANGED <<variant, isCalling, isAgentSpeaking, client, stopWhileConnecting>>
    /\ UNCHANGED notMinimal

toggleConversation_min_registerFailed(a) ==
    /\ variant = "minimal"
    /\ pc[a] = "register"
    /\ toggleConversation_min_catch(a, "toggleConversation_registerFailed")

\* retellWebClient.startCall resolved: setIsCalling(true).
toggleConversation_min_resolved(a) ==
    /\ variant = "minimal"
    /\ pc[a] = "startCall"
    /\ isCalling' = TRUE
    /\ pc' = [pc EXCEPT ![a] = "free"]
    /\ last' = Last("toggleConversation_resolved", {}, a)
    /\ UNCHANGED <<variant, client, stopWhileConnecting>>
    /\ UNCHANGED minOnly
    /\ UNCHANGED notMinimal

toggleConversation_min_rejected(a) ==
    /\ variant = "minimal"
    /\ pc[a] = "startCall"
    /\ toggleConversation_min_catch(a, "toggleConversation_rejected")

\* ---- SDK event handlers (minimal)
on_call_started_min ==
    /\ variant = "minimal"
    /\ client.state = "starting"
    /\ client' = [client EXCEPT !.state = "open"]
    /\ error' = NULL
    /\ last' = Last("call_started", {}, 0)
    /\ UNCHANGED <<variant, isCalling, isAgentSpeaking, pc, stopWhileConnecting>>
    /\ UNCHANGED notMinimal

on_call_ended_min ==
    /\ variant = "minimal"
    /\ ClientEmitsCallEnded
    /\ client' = ClientAfterCallEnded
    /\ isCalling' = FALSE
    /\ isAgentSpeaking' = FALSE
    /\ last' = Last("call_ended", {}, 0)
    /\ UNCHANGED <<variant, error, pc, stopWhileConnecting>>
    /\ UNCHANGED notMinimal

on_agent_start_talking_min ==
    /\ variant = "minimal"
    /\ client.state = "open"
    /\ isAgentSpeaking' = TRUE
    /\ last' = Last("agent_start_talking", {}, 0)
    /\ UNCHANGED <<variant, isCalling, error, pc, client, stopWhileConnecting>>
    /\ UNCHANGED notMinimal

on_agent_stop_talking_min ==
    /\ variant = "minimal"
    /\ client.state = "open"
    /\ isAgentSpeaking' = FALSE
    /\ last' = Last("agent_stop_talking", {}, 0)
    /\ UNCHANGED <<variant, isCalling, error, pc, client, stopWhileConnecting>>
    /\ UNCHANGED notMinimal

on_error_min ==
    /\ variant = "minimal"
    /\ client.state # "none"
    /\ error' = ConnectionError
    /\ client' = ClientStopCall(client)
    /\ isCalling' = FALSE
    /\ last' = Last("error", {"stopCall"}, 0)
    /\ UNCHANGED <<variant, isAgentSpeaking, pc, stopWhileConnecting>>
    /\ UNCHANGED notMinimal

MinimalNext ==
    \/ toggleConversation_min_stop
    \/ toggleConversation_min_start
    \/ \E a \in Slots : toggleConversation_min_registered(a)
    \/ \E a \in Slots : toggleConversation_min_noToken(a)
    \/ \E a \in Slots : toggleConversation_min_registerFailed(a)
    \/ \E a \in Slots : toggleConversation_min_resolved(a)
    \/ \E a \in Slots : toggleConversation_min_rejected(a)
    \/ on_call_started_min
    \/ on_call_ended_min
    \/ on_agent_start_talking_min
    \/ on_agent_stop_talking_min
    \/ on_error_min

\* ================================================== boolean-flag variant
notBoolean == <<status, talkMode, isAgentSpeaking, isUserSpeaking, isPTTActive,
                error, audioLevel, held>>

\* toggleConversation while isCalling (and neither guard flag set).
toggleConversation_bool_stop ==
    /\ variant = "boolean"
    /\ ~(isTransitioning \/ isCheckingMic)
    /\ isCalling
    /\ isTransitioning' = TRUE
    /\ client' = ClientStopCall(client)
    /\ last' = Last("toggleConversation_stop", {"stopCall"}, 0)
    /\ UNCHANGED <<variant, isMuted, isCalling, hasError, isCheckingMic, errorDetail,
                   pc, stopWhileConnecting>>
    /\ UNCHANGED notBoolean
    /\ UNCHANGED liveTracks

\* toggleConversation while not isCalling, up to the await of
\* checkMicrophonePermission.
toggleConversation_bool_start ==
    /\ variant = "boolean"
    /\ ~(isTransitioning \/ isCheckingMic)
    /\ ~isCalling
    /\ Outstanding # Slots
    /\ isCheckingMic' = TRUE
    /\ pc' = [pc EXCEPT ![FreeSlot] = "mic"]
    /\ last' = Last("toggleConversation_start", {"getUserMedia"}, FreeSlot)
    /\ stopWhileConnecting' = FALSE
    /\ UNCHANGED <<variant, isMuted, isCalling, hasError, isTransitioning, errorDetail,
                   client>>
    /\ UNCHANGED notBoolean
    /\ UNCHANGED liveTracks

\* checkMicrophonePermission returned true.
toggleConversation_bool_micGranted(a) ==
    /\ variant = "boolean"
    /\ pc[a] = "mic"
    /\ LET r == checkMicrophonePermission(a, "resolved")
       IN  /\ r.result
           /\ errorDetail' = r.detail
           /\ liveTracks' = liveTracks \cup r.live
    /\ isTransitioning' = TRUE
    /\ hasError' = FALSE
    /\ pc' = [pc EXCEPT ![a] = "register"]
    /\ last' = Last("toggleConversation_micGranted", {"fetch"}, a)
    /\ UNCHANGED <<variant, isMuted, isCalling, isCheckingMic, client, stopWhileConnecting>>
    /\ UNCHANGED notBoolean

\* checkMicrophonePermission returned false: mediaDevices missing or
\* getUserMedia rejected.
toggleConversation_bool_micDenied(a, outcome) ==
    /\ variant = "boolean"
    /\ pc[a] = "mic"
    /\ LET r == checkMicrophonePermission(a, outcome)
       IN  /\ ~r.result
           /\ errorDetail' = r.detail
           /\ liveTracks' = liveTracks \cup r.live
    /\ hasError' = TRUE
    /\ isCheckingMic' = FALSE
    /\ pc' = [pc EXCEPT ![a] = "free"]
    /\ last' = Last("toggleConversation_micDenied", {}, a)
    /\ UNCHANGED <<variant, isMuted, isCalling, isTransitioning, client, stopWhileConnecting>>
    /\ UNCHANGED notBoolean

\* registerCall resolved with an access_token: await retellWebClient.startCall.
toggleConversation_bool_registered(a) ==
    /\ variant = "boolean"
    /\ pc[a] = "register"
    /\ pc' = [pc EXCEPT ![a] = "startCall"]
    /\ client' = ClientStartCall(client)
    /\ last' = Last("toggleConversation_registered", {"startCall"}, a)
    /\ UNCHANGED <<variant, isMuted, isCalling, stopWhileConnecting>>
    /\ UNCHANGED boolOnly
    /\ UNCHANGED notBoolean
    /\ UNCHANGED liveTracks

\* registerCall resolved with a body that has no access_token: the if is
\* skipped, the trailing setIsCheckingMic(false) runs.
toggleConversation_bool_noToken(a) ==
    /\ variant = "boolean"
    /\ pc[a] = "register"
    /\ isCheckingMic' = FALSE
    /\ pc' = [pc EXCEPT ![a] = "free"]
    /\ last' = Last("toggleConversation_noToken", {}, a)
    /\ UNCHANGED <<variant, isMuted, isCalling, hasError, isTransitioning, errorDetail,
                   client, stopWhileConnecting>>
    /\ UNCHANGED notBoolean
    /\ UNCHANGED liveTracks

\* the catch block of toggleConversation and the trailing setIsCheckingMic(false)
toggleConversation_bool_catch(a, h) ==
    /\ hasError' = TRUE
    /\ isTransitioning' = FALSE
    /\ isCheckingMic' = FALSE
    /\ pc' = [pc EXCEPT ![a] = "free"]
    /\ last' = Last(h, {}, a)
    /\ UNCHANGED <<variant, isMuted, isCalling, errorDetail, client, stopWhileConnecting>>
    /\ UNCHANGED notBoolean
    /\ UNCHANGED liveTracks

toggleConversation_bool_registerFailed(a) ==
    /\ variant = "boolean"
    /\ pc[a] = "register"
    /\ toggleConversation_bool_catch(a, "toggleConversation_registerFailed")

\* retellWebClient.startCall resolved: setIsCalling(true), setIsCheckingMic(false).
toggleConversation_bool_resolved(a) ==
    /\ variant = "boolean"
    /\ pc[a] = "startCall"
    /\ isCalling' = TRUE
    /\ isCheckingMic' = FALSE
    /\ pc' = [pc EXCEPT ![a] = "free"]
    /\ last' = Last("toggleConversation_resolved", {}, a)
    /\ UNCHANGED <<variant, isMuted, hasError, isTransitioning, errorDetail, client,
                   stopWhileConnecting>>
    /\ UNCHANGED notBoolean
    /\ UNCHANGED liveTracks

toggleConversation_bool_rejected(a) ==
    /\ variant = "boolean"
    /\ pc[a] = "startCall"
    /\ toggleConversation_bool_catch(a, "toggleConversation_rejected")

toggleMute_bool ==
    /\ variant = "boolean"
    /\ isCalling
    /\ IF isMuted
       THEN /\ client' = ClientUnmute(client)
            /\ isMuted' = FALSE
            /\ last' = Last("toggleMute", {"unmute"}, 0)
       ELSE /\ client' = ClientMute(client)
            /\ isMuted' = TRUE
            /\ last' = Last("toggleMute", {"mute"}, 0)
    /\ UNCHANGED <<variant, isCalling, pc, stopWhileConnecting>>
    /\ UNCHANGED boolOnly
    /\ UNCHANGED notBoolean
    /\ UNCHANGED liveTracks

\* ---- SDK event handlers (boolean)
on_call_started_bool ==
    /\ variant = "boolean"
    /\ client.state = "starting"
    /\ client' = [client EXCEPT !.state = "open"]
    /\ hasError' = FALSE
    /\ isTransitioning' = FALSE
    /\ isCheckingMic' = FALSE
    /\ last' = Last("call_started", {}, 0)
    /\ UNCHANGED <<variant, isMuted, isCalling, errorDetail, pc, stopWhileConnecting>>
    /\ UNCHANGED notBoolean
    /\ UNCHANGED liveTracks

on_call_ended_bool ==
    /\ variant = "boolean"
    /\ ClientEmitsCallEnded
    /\ client' = ClientAfterCallEnded
    /\ isCalling' = FALSE
    /\ hasError' = FALSE
    /\ isTransitioning' = FALSE
    /\ isMuted' = FALSE
    /\ last' = Last("call_ended", {}, 0)
    /\ UNCHANGED <<variant, isCheckingMic, errorDetail, pc, stopWhileConnecting>>
    /\ UNCHANGED notBoolean
    /\ UNCHANGED liveTracks

\* agent_start_talking / agent_stop_talking only log.
on_agent_talking_bool(h) ==
    /\ variant = "boolean"
    /\ client.state = "open"
    /\ last' = Last(h, {}, 0)
    /\ UNCHANGED <<variant, isMuted, isCalling, pc, client, stopWhileConnecting>>
    /\ UNCHANGED boolOnly
    /\ UNCHANGED notBoolean
    /\ UNCHANGED liveTracks

on_error_bool ==
    /\ variant = "boolean"
    /\ client.state # "none"
    /\ hasError' = TRUE
    /\ client' = ClientStopCall(client)
    /\ isCalling' = FALSE
    /\ isTransitioning' = FALSE
    /\ isCheckingMic' = FALSE
    /\ last' = Last("error", {"stopCall"}, 0)
    /\ UNCHANGED <<variant, isMuted, errorDetail, pc, stopWhileConnecting>>
    /\ UNCHANGED notBoolean
    /\ UNCHANGED liveTracks

BooleanNext ==
    \/ toggleConversation_bool_stop
    \/ toggleConversation_bool_start
    \/ \E a \in Slots : toggleConversation_bool_micGranted(a)
    \/ \E a \in Slots : \E outcome \in {"unsupported", "rejected"} :
            toggleConversation_bool_micDenied(a, outcome)
    \/ \E a \in Slots : toggleConversation_bool_registered(a)
    \/ \E a \in Slots : toggleConversation_bool_noToken(a)
    \/ \E a \in Slots : toggleConversation_bool_registerFailed(a)
    \/ \E a \in Slots : toggleConversation_bool_resolved(a)
    \/ \E a \in Slots : toggleConversation_bool_rejected(a)
    \/ toggleMute_bool
    \/ on_call_started_bool
    \/ on_call_ended_bool
    \/ \E h \in {"agent_start_talking", "agent_stop_talking"} : on_agent_talking_bool(h)
    \/ on_error_bool

Next == EnumNext \/ MinimalNext \/ BooleanNext

Spec == Init /\ [][Next]_vars

\* The audio handler on its own: a call of the enum variant is brought up and
\* audio events with every sample buffer are delivered to it.
InitAudio == Init /\ variant = "enum"

NextAudio ==
    \/ startCall
    \/ \E a \in Slots : startCall_micGranted(a)
    \/ \E a \in Slots : startCall_registered(a)
    \/ \E a \in Slots : startCall_resolved(a)
    \/ on_call_started
    \/ on_call_ended
    \/ \E audio \in SampleBuffers : on_audio(audio)

SpecAudio == InitAudio /\ [][NextAudio]_vars

\* The boolean variant under the scheduling its environment provides: every
\* awaited operation (permission check, registration request, client
\* startCall) completes, the client emits call_started for a call it is
\* connecting and delivers the call_ended that a stopCall made due.  User
\* actions and the other client events carry no fairness.
InitBoolean == Init /\ variant = "boolean"

AwaitCompletes(a) ==
    \/ toggleConversation_bool_micGranted(a)
    \/ \E outcome \in {"unsupported", "rejected"} :
            toggleConversation_bool_micDenied(a, outcome)
    \/ toggleConversation_bool_registered(a)
    \/ toggleConversation_bool_noToken(a)
    \/ toggleConversation_bool_registerFailed(a)
    \/ toggleConversation_bool_resolved(a)
    \/ toggleConversation_bool_rejected(a)

CallEndedDelivered == client.ended /\ on_call_ended_bool

SpecBooleanFair ==
    /\ InitBoolean
    /\ [][BooleanNext]_vars
    /\ \A a \in Slots : WF_vars(AwaitCompletes(a))
    /\ WF_vars(on_call_started_bool)
    /\ WF_vars(CallEndedDelivered)

TypeOK ==
    /\ variant \in Variants
    /\ status \in CallStatus
    /\ talkMode \in TalkMode
    /\ error \in {NULL, ConnectionError, MicDenied, FailedToConnect}
    /\ audioLevel.num \in Nat /\ audioLevel.den \in Nat
    /\ held \subseteq {"pointer", "space"}
    /\ liveTracks \subseteq (Slots \X {"audio"})
    /\ \A b \in {isMuted, isAgentSpeaking, isUserSpeaking, isPTTActive, isCalling,
                 hasError, isTransitioning, isCheckingMic} : b \in BOOLEAN
    /\ pc \in [Slots -> {"free", "mic", "register", "startCall"}]
    /\ client.state \in {"none", "starting", "open"}

\* ================================================================ claims
\* The error indication of each variant: status/error, error, hasError.
ErrorShown ==
    CASE variant = "enum" -> status = "error" /\ error # NULL
      [] variant = "minimal" -> error # NULL
      [] OTHER -> hasError

\* C1: in every variant the state right after the call_ended handler is the
\* fully reset session: idle (boolean variant: isCalling, isTransitioning and
\* hasError all false), not muted, agent not speaking, push-to-talk inactive.
C1_CallEndedResets ==
    last.handler = "call_ended" =>
        /\ variant = "enum" => status = "idle"
        /\ variant # "enum" => ~isCalling /\ ~isTransitioning /\ ~hasError
        /\ ~isMuted
        /\ ~isAgentSpeaking
        /\ ~isPTTActive

\* C2: at most one start attempt is suspended at an await at any time, i.e. a
\* start request made while an attempt is outstanding starts nothing.
C2_SingleStartOutstanding == Cardinality(Outstanding) <= 1

\* C3: in the enum variant, after the user stopped a start that was still in
\* flight, the session is never connected unless a new start was requested.
C3_NoOpenCallAfterStop ==
    variant = "enum" => ~(stopWhileConnecting /\ status = "connected")

\* C4: in every variant, right after the error handler ran on a connected
\* session, stopCall was invoked on the client, the error status is shown and
\* isAgentSpeaking and isMuted are both false.
C4_ErrorWhileConnected ==
    (last.handler = "error" /\ last.wasConnected) =>
        /\ "stopCall" \in last.calls
        /\ ErrorShown
        /\ ~isAgentSpeaking
        /\ ~isMuted

\* C5: in the boolean variant at most one of isCheckingMic, isTransitioning,
\* hasError and isCalling is true in any reachable state.
C5_FlagsExclusive ==
    variant = "boolean" =>
        Cardinality({f \in {"isCheckingMic", "isTransitioning", "hasError", "isCalling"} :
            CASE f = "isCheckingMic" -> isCheckingMic
              [] f = "isTransitioning" -> isTransitioning
              [] f = "hasError" -> hasError
              [] OTHER -> isCalling}) <= 1

\* C6: the session becomes connected only by the call_started handler: a state
\* that is connected, and was not before the last handler ran, was produced
\* by call_started.
C6_ConnectedOnlyByCallStarted ==
    (Connected /\ ~last.wasConnected) => last.handler = "call_started"

\* C7: in the enum variant a start attempt sets status connecting when it
\* begins, and when its registration request fails the status is error, the
\* error message is set, and the attempt is over without having invoked
\* startCall on the client.
C7_RegistrationFailure ==
    variant = "enum" =>
        /\ last.handler = "startCall" => status = "connecting" /\ error = NULL
        /\ last.handler = "startCall_registerFailed" =>
              /\ status = "error"
              /\ error # NULL
              /\ last.calls = {}
              /\ pc[last.attempt] = "free"

C7_Witness ==
    /\ variant = "enum"
    /\ last.handler = "startCall_registerFailed"
    /\ status = "error"
    /\ error = FailedToConnect

\* C8: in the enum and boolean variants, when the microphone probe of a start
\* attempt is denied the error status is shown and the attempt is over having
\* issued neither the registration request nor startCall.
C8_MicDenied ==
    last.handler \in {"startCall_micDenied", "toggleConversation_micDenied"} =>
        /\ ErrorShown
        /\ variant = "boolean" => ~isCheckingMic /\ errorDetail # ""
        /\ last.calls = {}
        /\ pc[last.attempt] = "free"

C8_Witness ==
    /\ last.handler \in {"startCall_micDenied", "toggleConversation_micDenied"}
    /\ ErrorShown
    /\ pc[last.attempt] = "free"

\* C9: in the enum variant, right after switchMode ran on a connected session,
\* isMuted is true and the client was muted if the new mode is push-to-talk,
\* isMuted is false and the client was unmuted if it is continuous.
C9_SwitchModeForcesMute ==
    (variant = "enum" /\ last.handler = "switchMode" /\ last.wasConnected) =>
        IF talkMode = "push-to-talk"
        THEN isMuted /\ last.calls = {"mute"} /\ client.muted
        ELSE ~isMuted /\ last.calls = {"unmute"} /\ ~client.muted

C9_Witness ==
    /\ variant = "enum"
    /\ last.handler = "switchMode"
    /\ last.wasConnected
    /\ talkMode = "push-to-talk"
    /\ isMuted
    /\ client.muted

\* C10: in the enum variant, when call_started makes the session connected
\* while talkMode is push-to-talk, the client has been muted and isMuted is
\* true.
C10_StartsMutedInPTT ==
    (variant = "enum" /\ last.handler = "call_started" /\ talkMode = "push-to-talk") =>
        isMuted /\ client.muted

\* The handlers a push-to-talk press or release runs through.
PressHandlers == PressEvents \cup {"handleKeyDown", "handleKeyDown_repeat"}
ReleaseHandlers == ReleaseEvents \cup {"onMouseLeave", "handleKeyUp"}

\* C11: in the enum variant a press or release handler that runs while not
\* (talkMode = push-to-talk and status = connected) leaves isPTTActive as it
\* was and invokes neither mute nor unmute on the client.
C11_PTTOnlyWhenConnectedPTT ==
    [][(/\ variant = "enum"
        /\ last'.handler \in PressHandlers \cup ReleaseHandlers
        /\ ~(talkMode = "push-to-talk" /\ status = "connected"))
       => (isPTTActive' = isPTTActive /\ last'.calls = {} /\ client' = client)]_vars

\* C12: in the enum variant isPTTActive is true only in push-to-talk mode
\* while the pointer or the Space key is held down.
C12_PTTActiveOnlyWhileHeld ==
    (variant = "enum" /\ isPTTActive) => (talkMode = "push-to-talk" /\ held # {})

\* C13: in the enum variant, in push-to-talk mode during a connected call, a
\* key-repeat keydown while push-to-talk is already active invokes nothing on
\* the client, and the keyup releases: isPTTActive false and the client muted.
C13_KeyRepeatDoesNotRetrigger ==
    [][(variant = "enum" /\ talkMode = "push-to-talk" /\ status = "connected") =>
         /\ (isPTTActive /\ last'.handler = "handleKeyDown_repeat") =>
                (last'.calls = {} /\ isPTTActive')
         /\ last'.handler = "handleKeyUp" =>
                (last'.calls = {"mute"} /\ ~isPTTActive')]_vars

\* C14: in the enum variant a press (mouse-down, touch-start, Space keydown)
\* while talkMode is continuous leaves isMuted and the client's mute state as
\* they were and invokes nothing on the client, in any status.
C14_PressInContinuousNoEffect ==
    [][(/\ variant = "enum"
        /\ talkMode = "continuous"
        /\ last'.handler \in PressHandlers)
       => (isMuted' = isMuted /\ client' = client /\ last'.calls = {}
           /\ isPTTActive' = isPTTActive)]_vars

C14_Witness ==
    /\ variant = "enum"
    /\ talkMode = "continuous"
    /\ last.handler \in PressHandlers
    /\ status = "connected"
    /\ isMuted
    /\ client.muted

\* C15: in every variant the state right after the call_started handler is
\* connected, shows no error and has no transient flag set.
C15_CallStartedConnects ==
    last.handler = "call_started" =>
        /\ Connected
        /\ error = NULL
        /\ ~hasError
        /\ ~isTransitioning
        /\ ~isCheckingMic

\* C16: a press of the main control in the error status starts an attempt
\* with the error indication already cleared; in the variants that probe the
\* microphone the attempt begins at the permission check.
C16_RetryClearsError ==
    [][(ErrorShown /\ last'.handler \in {"startCall", "toggleConversation_start"}) =>
         /\ ~ErrorShown'
         /\ variant # "minimal" => pc'[last'.attempt] = "mic"]_vars

\* C17: in the minimal and enum variants agent_start_talking sets
\* isAgentSpeaking, agent_stop_talking clears it, and neither changes any other
\* cell nor invokes anything on the client.
C17_AgentTalkingFrame ==
    [][(variant \in {"minimal", "enum"}
        /\ last'.handler \in {"agent_start_talking", "agent_stop_talking"})
       => /\ isAgentSpeaking' = (last'.handler = "agent_start_talking")
          /\ last'.calls = {}
          /\ UNCHANGED <<status, talkMode, isMuted, isUserSpeaking, isPTTActive,
                         error, audioLevel, isCalling, client>>]_vars

C17_Witness ==
    /\ variant = "enum"
    /\ last.handler = "agent_stop_talking"
    /\ ~isAgentSpeaking
    /\ isMuted
    /\ status = "connected"

\* C18: no track of a probe stream is live once its start attempt is past the
\* permission check (registration or startCall pending, or returned).
C18_ProbeStreamReleased ==
    \A track \in liveTracks : pc[track[1]] = "mic"

C18_Witness ==
    /\ last.handler \in {"startCall_micGranted", "toggleConversation_micGranted"}
    /\ pc[last.attempt] = "register"
    /\ liveTracks = {}

\* C19: in the enum variant, while connected, at most one of the purple
\* (agent speaking) and green (listening) rings is on the main button, and
\* while the agent speaks it is the purple one.
C19_AgentRingPrecedence ==
    (variant = "enum" /\ status = "connected") =>
        /\ Cardinality(RingClasses \cap {"ring-purple-600/50", "ring-green-500/50"}) <= 1
        /\ isAgentSpeaking => RingClasses = {"ring-purple-600/50"}

\* C20: the audio handler stores 0 for an empty sample buffer, and for every
\* buffer a number within [0, 1].
C20_AudioLevelInUnitInterval ==
    /\ last.handler = "audio_empty" => (audioLevel.num = 0 /\ audioLevel.den > 0)
    /\ last.handler \in {"audio", "audio_empty"} =>
          (audioLevel.den > 0 /\ 0 <= audioLevel.num /\ audioLevel.num <= audioLevel.den)

\* C21: in the enum variant, in push-to-talk mode during a connected call, the
\* click that the mouse-up (or touch-end) of a press on the main button
\* produces does not end the call: status stays connected and stopCall is not
\* invoked on the client.
C21_PTTGestureKeepsCall ==
    [][(/\ variant = "enum"
        /\ talkMode = "push-to-talk"
        /\ status = "connected"
        /\ last.handler \in ReleaseEvents
        /\ last'.handler \in {"startCall", "stopCall"})
       => (status' = "connected" /\ "stopCall" \notin last'.calls)]_vars

\* C22: in the enum variant, in every state that is connected with
\* push-to-talk inactive, isMuted equals the mute state of the client.
C22_MutedMatchesClient ==
    (variant = "enum" /\ status = "connected" /\ ~isPTTActive) =>
        isMuted = client.muted

\* C23: in the minimal and boolean variants isCalling is true only while the
\* client has a call in progress, or has closed it and its call_ended event is
\* still to be delivered.
C23_CallingOnlyDuringCall ==
    (variant \in {"minimal", "boolean"} /\ isCalling) =>
        (client.state # "none" \/ client.ended)

\* C24: in the boolean variant, under SpecBooleanFair, every state in which
\* isTransitioning or isCheckingMic is true is eventually followed by a state
\* in which both are false.
C24_ControlUsableAgain ==
    (isTransitioning \/ isCheckingMic) ~> (~isTransitioning /\ ~isCheckingMic)
====
